---- MODULE Spec2Model ----
(***************************************************************************)
(* Linux block-device discovery of ghw (block_linux.go): the device-name   *)
(* classifier, the mount-table parser and lookup, and the assembly of the  *)
(* Disk records and their total size.                                      *)
(*                                                                         *)
(* A Go string is modelled as a sequence of one-character strings, so that *)
(* prefixes, fields and escapes are computed character by character.       *)
(***************************************************************************)
EXTENDS Integers, Sequences, FiniteSets, TLC

VARIABLES
    pc,        \* position of the modelled call: "start", then its outcome
    dname,     \* diskTypes: the device name handed to it
    types,     \* diskTypes: the returned (driveType, storageController)
    line,      \* parseMtabEntry: the mount-table line handed to it
    entry,     \* parseMtabEntry: the returned *mtabEntry, nil, or a panic
    part,      \* partitionInfo: the partition identifier handed to it
    mtab,      \* /etc/mtab: whether it opens, and its lines
    pinfo,     \* partitionInfo: the returned (mount point, type, read-only)
               \* or a panic
    sysfs,     \* disks: the device tree under /sys/block
    udev,      \* disks: the files under /run/udev/data, by name
    info       \* blockFillInfo: the BlockInfo it fills

vars == <<pc, dname, types, line, entry, part, mtab, pinfo, sysfs, udev, info>>

----------------------------------------------------------------------------
(* Strings *)

\* All sequences over S of length at most n.
SeqsUpTo(S, n) == UNION {[1..k -> S] : k \in 0..n}

RECURSIVE Concat(_)
\* The concatenation of a sequence of strings.
Concat(ss) == IF ss = <<>> THEN <<>> ELSE Head(ss) \o Concat(Tail(ss))

HasPrefix(s, prefix) ==
    Len(s) >= Len(prefix) /\ SubSeq(s, 1, Len(prefix)) = prefix

----------------------------------------------------------------------------
(* diskTypes *)

DRIVE_TYPE_UNKNOWN == "Unknown"
DRIVE_TYPE_HDD == "HDD"
DRIVE_TYPE_FDD == "FDD"
DRIVE_TYPE_ODD == "ODD"
DRIVE_TYPE_SSD == "SSD"

STORAGE_CONTROLLER_UNKNOWN == "Unknown"
STORAGE_CONTROLLER_IDE == "IDE"
STORAGE_CONTROLLER_SCSI == "SCSI"
STORAGE_CONTROLLER_NVME == "NVMe"
STORAGE_CONTROLLER_VIRTIO == "virtio"
STORAGE_CONTROLLER_MMC == "MMC"

\* diskTypes with the "sd" rule written as "s": it then also takes "sr..." names.
diskTypesShortPrefix(name) ==
    IF HasPrefix(name, <<"f", "d">>) THEN <<DRIVE_TYPE_FDD, STORAGE_CONTROLLER_UNKNOWN>>
    ELSE IF HasPrefix(name, <<"s">>) THEN <<DRIVE_TYPE_HDD, STORAGE_CONTROLLER_SCSI>>
    ELSE IF HasPrefix(name, <<"h", "d">>) THEN <<DRIVE_TYPE_HDD, STORAGE_CONTROLLER_IDE>>
    ELSE IF HasPrefix(name, <<"v", "d">>) THEN <<DRIVE_TYPE_HDD, STORAGE_CONTROLLER_VIRTIO>>
    ELSE IF HasPrefix(name, <<"n", "v", "m", "e">>) THEN <<DRIVE_TYPE_SSD, STORAGE_CONTROLLER_NVME>>
    ELSE IF HasPrefix(name, <<"s", "r">>) THEN <<DRIVE_TYPE_ODD, STORAGE_CONTROLLER_SCSI>>
    ELSE IF HasPrefix(name, <<"x", "v", "d">>) THEN <<DRIVE_TYPE_HDD, STORAGE_CONTROLLER_SCSI>>
    ELSE IF HasPrefix(name, <<"m", "m", "c">>) THEN <<DRIVE_TYPE_SSD, STORAGE_CONTROLLER_MMC>>
    ELSE <<DRIVE_TYPE_UNKNOWN, STORAGE_CONTROLLER_UNKNOWN>>

\* The if / else-if chain of diskTypes; the "fd" branch leaves the controller
\* at its initial STORAGE_CONTROLLER_UNKNOWN.
diskTypes(name) ==
    IF HasPrefix(name, <<"f", "d">>) THEN <<DRIVE_TYPE_FDD, STORAGE_CONTROLLER_UNKNOWN>>
    ELSE IF HasPrefix(name, <<"s", "d">>) THEN <<DRIVE_TYPE_HDD, STORAGE_CONTROLLER_SCSI>>
    ELSE IF HasPrefix(name, <<"h", "d">>) THEN <<DRIVE_TYPE_HDD, STORAGE_CONTROLLER_IDE>>
    ELSE IF HasPrefix(name, <<"v", "d">>) THEN <<DRIVE_TYPE_HDD, STORAGE_CONTROLLER_VIRTIO>>
    ELSE IF HasPrefix(name, <<"n", "v", "m", "e">>) THEN <<DRIVE_TYPE_SSD, STORAGE_CONTROLLER_NVME>>
    ELSE IF HasPrefix(name, <<"s", "r">>) THEN <<DRIVE_TYPE_ODD, STORAGE_CONTROLLER_SCSI>>
    ELSE IF HasPrefix(name, <<"x", "v", "d">>) THEN <<DRIVE_TYPE_HDD, STORAGE_CONTROLLER_SCSI>>
    ELSE IF HasPrefix(name, <<"m", "m", "c">>) THEN <<DRIVE_TYPE_SSD, STORAGE_CONTROLLER_MMC>>
    ELSE <<DRIVE_TYPE_UNKNOWN, STORAGE_CONTROLLER_UNKNOWN>>

----------------------------------------------------------------------------
(* parseMtabEntry *)

\* unicode.IsSpace on the characters a line can hold here: the ASCII white
\* space that TLA+ can write (vertical tab is left out).
IsSpace(c) == c \in {" ", "\t", "\n", "\r", "\f"}

RECURSIVE FieldsScan(_, _, _, _)
\* strings.Fields: one pass over s; start is the index where the field being
\* read began, 0 between fields.
FieldsScan(s, i, start, acc) ==
    IF i > Len(s)
    THEN IF start > 0 THEN Append(acc, SubSeq(s, start, Len(s))) ELSE acc
    ELSE IF IsSpace(s[i])
         THEN FieldsScan(s, i + 1, 0,
                         IF start > 0 THEN Append(acc, SubSeq(s, start, i - 1)) ELSE acc)
         ELSE FieldsScan(s, i + 1, IF start > 0 THEN start ELSE i, acc)

RECURSIVE FieldsScanSpaceOnly(_, _, _, _)
\* FieldsScan separating on the space character alone.
FieldsScanSpaceOnly(s, i, start, acc) ==
    IF i > Len(s)
    THEN IF start > 0 THEN Append(acc, SubSeq(s, start, Len(s))) ELSE acc
    ELSE IF s[i] = " "
         THEN FieldsScanSpaceOnly(s, i + 1, 0,
                         IF start > 0 THEN Append(acc, SubSeq(s, start, i - 1)) ELSE acc)
         ELSE FieldsScanSpaceOnly(s, i + 1, IF start > 0 THEN start ELSE i, acc)

FieldsSpaceOnly(s) == FieldsScanSpaceOnly(s, 1, 0, <<>>)

Fields(s) == FieldsScan(s, 1, 0, <<>>)

RECURSIVE SplitScan(_, _, _, _, _)
\* strings.Split with a one-character separator: the pieces between the
\* separators, empty pieces kept; the empty string splits into one empty piece.
SplitScan(s, sep, i, start, acc) ==
    IF i > Len(s)
    THEN Append(acc, SubSeq(s, start, Len(s)))
    ELSE IF s[i] = sep
         THEN SplitScan(s, sep, i + 1, i + 1, Append(acc, SubSeq(s, start, i - 1)))
         ELSE SplitScan(s, sep, i + 1, start, acc)

Split(s, sep) == SplitScan(s, sep, 1, 1, <<>>)

\* The old / new pairs given to strings.NewReplacer, in argument order.
MountpointEscapes == <<
    [old |-> <<"\\", "0", "1", "1">>, new |-> <<"\t">>],
    [old |-> <<"\\", "0", "1", "2">>, new |-> <<"\n">>],
    [old |-> <<"\\", "0", "4", "0">>, new |-> <<" ">>],
    [old |-> <<"\\", "\\">>,          new |-> <<"\\">>] >>

\* The replacer's lookup at index i of s: the pairs whose old string starts
\* there; the earliest in argument order wins. 0: none.
ReplacerLookup(pairs, s, i) ==
    LET hits == {k \in DOMAIN pairs : HasPrefix(SubSeq(s, i, Len(s)), pairs[k].old)}
    IN  IF hits = {} THEN 0 ELSE CHOOSE k \in hits : \A m \in hits : k <= m

RECURSIVE ReplacerScan(_, _, _, _)
\* (*Replacer).Replace: one pass; at a match the new string is written and the
\* scan goes on after the old one, otherwise the character is copied.
ReplacerScan(pairs, s, i, out) ==
    IF i > Len(s) THEN out
    ELSE LET k == ReplacerLookup(pairs, s, i)
         IN  IF k = 0
             THEN ReplacerScan(pairs, s, i + 1, Append(out, s[i]))
             ELSE ReplacerScan(pairs, s, i + Len(pairs[k].old), out \o pairs[k].new)

RECURSIVE ReplaceAllChained(_, _, _)
\* One strings.ReplaceAll per pair, each over the result of the one before.
ReplaceAllChained(pairs, s, k) ==
    IF k > Len(pairs) THEN s
    ELSE ReplaceAllChained(pairs, ReplacerScan(<<pairs[k]>>, s, 1, <<>>), k + 1)

\* Decoding by chained whole-string replacements instead of one pass.
decodeMountpointChained(mp) == ReplaceAllChained(MountpointEscapes, mp, 1)

\* r.Replace(mp) of parseMtabEntry.
decodeMountpoint(mp) == ReplacerScan(MountpointEscapes, mp, 1, <<>>)

\* parseMtabEntry: line[0] of an empty line is an index out of range.
parseMtabEntry(l) ==
    IF Len(l) = 0 THEN [kind |-> "panic"]
    ELSE IF l[1] # "/" THEN [kind |-> "nil"]
    ELSE LET fields == Fields(l)
         IN  IF Len(fields) < 4 THEN [kind |-> "nil"]
             ELSE [kind           |-> "entry",
                   Partition      |-> fields[1],
                   Mountpoint     |-> decodeMountpoint(fields[2]),
                   FilesystemType |-> fields[3],
                   Options        |-> Split(fields[4], ",")]

----------------------------------------------------------------------------
(* partitionInfo *)

DevPrefix == <<"/", "d", "e", "v">>

\* The first lines of partitionInfo: "/dev/" is put in front unless the
\* identifier starts with "/dev".
normalizePart(p) == IF ~HasPrefix(p, DevPrefix) THEN DevPrefix \o <<"/">> \o p ELSE p

\* Read-only unless some option contains "rw".
optionsReadOnlyContains(opts) ==
    ~\E k \in DOMAIN opts :
        \E i \in 1..(Len(opts[k]) - 1) : opts[k][i] = "r" /\ opts[k][i + 1] = "w"

\* The loop over entry.Options: read-only unless an option equals "rw".
optionsReadOnly(opts) == ~\E k \in DOMAIN opts : opts[k] = <<"r", "w">>

RECURSIVE scanMtab(_, _, _)
\* The scanner loop of partitionInfo from line i on.
scanMtab(p, lines, i) ==
    IF i > Len(lines) THEN [kind |-> "return", mp |-> <<>>, pt |-> <<>>, ro |-> TRUE]
    ELSE LET e == parseMtabEntry(lines[i])
         IN  IF e.kind = "panic" THEN [kind |-> "panic"]
             ELSE IF e.kind = "nil" THEN scanMtab(p, lines, i + 1)
             ELSE IF e.Partition # p THEN scanMtab(p, lines, i + 1)
             ELSE [kind |-> "return", mp |-> e.Mountpoint, pt |-> e.FilesystemType,
                   ro |-> optionsReadOnly(e.Options)]

\* partitionInfo; table.ok is false when os.Open fails.
partitionInfo(table, p) ==
    IF ~table.ok THEN [kind |-> "return", mp |-> <<>>, pt |-> <<>>, ro |-> TRUE]
    ELSE scanMtab(normalizePart(p), table.lines, 1)

\* A variable the modelled call does not use.
None == "none"

----------------------------------------------------------------------------
(* Reading the attributes of a device *)

\* A file is [ok |-> whether ioutil.ReadFile succeeds, data |-> its contents].
\* Sizes are counted in units of 2^50 (sectors in the size attribute, bytes in
\* SizeBytes and TotalPhysicalBytes), so that a uint64 holds Word = 2^14 units
\* and uint64 arithmetic on them is arithmetic modulo Word.
Word == 16384

sectorSize == 512

\* util.UNKNOWN, the string of an unknown value.
UNKNOWN == <<"u", "n", "k", "n", "o", "w", "n">>

RECURSIVE TrimLeft(_)
TrimLeft(s) == IF s # <<>> /\ IsSpace(Head(s)) THEN TrimLeft(Tail(s)) ELSE s

RECURSIVE TrimRight(_)
TrimRight(s) ==
    IF s # <<>> /\ IsSpace(s[Len(s)]) THEN TrimRight(SubSeq(s, 1, Len(s) - 1)) ELSE s

\* strings.TrimSpace
TrimSpace(s) == TrimRight(TrimLeft(s))

Digits == <<"0", "1", "2", "3", "4", "5", "6", "7", "8", "9">>

IsDigit(c) == \E d \in DOMAIN Digits : Digits[d] = c

DigitValue(c) == (CHOOSE d \in DOMAIN Digits : Digits[d] = c) - 1

RECURSIVE ParseUintScan(_, _, _)
\* The digit loop of strconv.ParseUint(s, 10, 64): a character that is no
\* digit, or a value that no longer fits, is an error.
ParseUintScan(s, i, n) ==
    IF i > Len(s) THEN [err |-> FALSE, val |-> n]
    ELSE IF ~IsDigit(s[i]) THEN [err |-> TRUE, val |-> 0]
    ELSE IF n * 10 + DigitValue(s[i]) >= Word THEN [err |-> TRUE, val |-> Word - 1]
    ELSE ParseUintScan(s, i + 1, n * 10 + DigitValue(s[i]))

\* strconv.ParseUint(s, 10, 64); the empty string is an error.
ParseUint(s) == IF s = <<>> THEN [err |-> TRUE, val |-> 0] ELSE ParseUintScan(s, 1, 0)

diskPhysicalBlockSizeBytes(dev) ==
    IF ~dev.physical_block_size.ok THEN 0
    ELSE LET r == ParseUint(TrimSpace(dev.physical_block_size.data))
         IN  IF r.err THEN 0 ELSE r.val

diskSizeBytes(dev) ==
    IF ~dev.size.ok THEN 0
    ELSE LET r == ParseUint(TrimSpace(dev.size.data))
         IN  IF r.err THEN 0 ELSE (r.val * sectorSize) % Word

\* filepath.Base of a link target: its last element.
Base(path) ==
    LET slashes == {i \in DOMAIN path : path[i] = "/"}
    IN  IF slashes = {} THEN path
        ELSE SubSeq(path, (CHOOSE i \in slashes : \A j \in slashes : j <= i) + 1, Len(path))

DevicesPrefix == <<".", ".", "/", "devices", "/">>

\* strconv.Atoi of an attribute's contents (not trimmed): the value, and
\* whether it is an error; the value of a syntax error is 0.
Atoi(s) == LET r == ParseUint(s) IN [err |-> r.err, val |-> IF r.err THEN 0 ELSE r.val]

RECURSIVE numaWalk(_, _)
\* The loop of diskNUMANodeID over partial. A node id is returned when the
\* read of numa_node failed and the conversion of what was read failed too.
numaWalk(dev, partial) ==
    IF ~HasPrefix(partial, DevicesPrefix) THEN -1
    ELSE LET f == dev.numa_node
             r == Atoi(IF f.ok THEN f.data ELSE <<>>)
         IN  IF ~f.ok /\ r.err THEN r.val ELSE numaWalk(dev, Base(partial))

diskNUMANodeID(dev) == IF ~dev.link.ok THEN -1 ELSE numaWalk(dev, dev.link.data)

diskVendor(dev) == IF ~dev.vendor.ok THEN UNKNOWN ELSE TrimSpace(dev.vendor.data)

\* strings.SplitN(s, "=", 2)
SplitN2(s, sep) ==
    LET at == {i \in DOMAIN s : s[i] = sep}
    IN  IF at = {} THEN <<s>>
        ELSE LET i == CHOOSE i \in at : \A j \in at : i <= j
             IN  <<SubSeq(s, 1, i - 1), SubSeq(s, i + 1, Len(s))>>

RECURSIVE udevLines(_, _, _)
\* The loop over the lines of the udev record: the map after line i - 1 is
\* info; an "E:" line with an "=" sets info[key], a later one overwriting.
udevLines(lines, i, info_) ==
    IF i > Len(lines) THEN info_
    ELSE LET l == lines[i]
             kv == SplitN2(SubSeq(l, 3, Len(l)), "=")
         IN  IF HasPrefix(l, <<"E", ":">>) /\ Len(kv) = 2
             THEN udevLines(lines, i + 1,
                      [k \in DOMAIN info_ \cup {kv[1]} |->
                          IF k = kv[1] THEN kv[2] ELSE info_[k]])
             ELSE udevLines(lines, i + 1, info_)

\* udevInfo: the record file is named "b" and the trimmed dev attribute.
udevInfo(dev, db) ==
    IF ~dev.dev.ok THEN [err |-> TRUE]
    ELSE LET udevID == <<"b">> \o TrimSpace(dev.dev.data)
         IN  IF udevID \notin DOMAIN db THEN [err |-> TRUE]
             ELSE [err |-> FALSE,
                   map |-> udevLines(Split(db[udevID], "\n"), 1, <<>>)]

\* info[key] if the record was read and has the key, UNKNOWN otherwise.
udevValue(dev, db, key) ==
    LET i == udevInfo(dev, db)
    IN  IF i.err THEN UNKNOWN
        ELSE IF <<key>> \in DOMAIN i.map THEN i.map[<<key>>] ELSE UNKNOWN

diskModel(dev, db) == udevValue(dev, db, "ID_MODEL")

\* diskSerialNumber falling back on ID_SERIAL.
diskSerialNumberWithFallback(dev, db) ==
    LET i == udevInfo(dev, db)
    IN  IF i.err THEN UNKNOWN
        ELSE IF <<"ID_SERIAL_SHORT">> \in DOMAIN i.map THEN i.map[<<"ID_SERIAL_SHORT">>]
        ELSE IF <<"ID_SERIAL">> \in DOMAIN i.map THEN i.map[<<"ID_SERIAL">>]
        ELSE UNKNOWN

diskSerialNumber(dev, db) == udevValue(dev, db, "ID_SERIAL_SHORT")

diskBusPath(dev, db) == udevValue(dev, db, "ID_PATH")

\* diskWWN preferring ID_WWN.
diskWWNShortFirst(dev, db) ==
    LET i == udevInfo(dev, db)
    IN  IF i.err THEN UNKNOWN
        ELSE IF <<"ID_WWN">> \in DOMAIN i.map THEN i.map[<<"ID_WWN">>]
        ELSE IF <<"ID_WWN_WITH_EXTENSION">> \in DOMAIN i.map
             THEN i.map[<<"ID_WWN_WITH_EXTENSION">>]
        ELSE UNKNOWN

diskWWN(dev, db) ==
    LET i == udevInfo(dev, db)
    IN  IF i.err THEN UNKNOWN
        ELSE IF <<"ID_WWN_WITH_EXTENSION">> \in DOMAIN i.map
             THEN i.map[<<"ID_WWN_WITH_EXTENSION">>]
        ELSE IF <<"ID_WWN">> \in DOMAIN i.map THEN i.map[<<"ID_WWN">>]
        ELSE UNKNOWN

diskIsRemovable(dev) ==
    IF ~dev.removable.ok THEN FALSE ELSE TrimSpace(dev.removable.data) = <<"1">>

\* safeIntFromFile: the integer in the file, -1 when it cannot be read or
\* converted.
safeIntFromFile(f) ==
    IF ~f.ok THEN -1
    ELSE LET r == ParseUint(TrimSpace(f.data)) IN IF r.err THEN -1 ELSE r.val

diskIsRotational(dev) == safeIntFromFile(dev.rotational) = 1


----------------------------------------------------------------------------
(* disks and blockFillInfo *)

\* A device of the tree is a record: name, the attribute files size,
\* physical_block_size, rotational, removable, vendor, dev and numa_node, link
\* (os.Readlink of its directory) and dir (ioutil.ReadDir of its directory:
\* ok, and the entries, each with a name and a size file).

partitionSizeBytes(e) ==
    IF ~e.size.ok THEN 0
    ELSE LET r == ParseUint(TrimSpace(e.size.data))
         IN  IF r.err THEN 0 ELSE (r.val * sectorSize) % Word

RECURSIVE partitionsFrom(_, _, _, _)
\* The loop of diskPartitions from entry i on; out holds the partitions so far.
partitionsFrom(dev, table, i, out) ==
    IF i > Len(dev.dir.entries) THEN [kind |-> "return", parts |-> out]
    ELSE LET e == dev.dir.entries[i]
         IN  IF ~HasPrefix(e.name, dev.name) THEN partitionsFrom(dev, table, i + 1, out)
             ELSE LET pi == partitionInfo(table, e.name)
                  IN  IF pi.kind = "panic" THEN [kind |-> "panic"]
                      ELSE partitionsFrom(dev, table, i + 1,
                               Append(out, [Name       |-> e.name,
                                            SizeBytes  |-> partitionSizeBytes(e),
                                            MountPoint |-> pi.mp,
                                            Type       |-> pi.pt,
                                            IsReadOnly |-> pi.ro]))

\* diskPartitions: an unreadable directory is warned about and gives no
\* partitions.
diskPartitions(dev, table) ==
    IF ~dev.dir.ok THEN [kind |-> "return", parts |-> <<>>]
    ELSE partitionsFrom(dev, table, 1, <<>>)

\* The Disk built by one pass of the loop of disks, before its partitions are
\* attached. (The Disk pointer each partition gets is not modelled.)
diskOf(dev, db) ==
    [Name                   |-> dev.name,
     SizeBytes              |-> diskSizeBytes(dev),
     PhysicalBlockSizeBytes |-> diskPhysicalBlockSizeBytes(dev),
     DriveType              |-> IF ~diskIsRotational(dev) THEN DRIVE_TYPE_SSD
                                ELSE diskTypes(dev.name)[1],
     IsRemovable            |-> diskIsRemovable(dev),
     StorageController      |-> diskTypes(dev.name)[2],
     BusPath                |-> diskBusPath(dev, db),
     NUMANodeID             |-> diskNUMANodeID(dev),
     Vendor                 |-> diskVendor(dev),
     Model                  |-> diskModel(dev, db),
     SerialNumber           |-> diskSerialNumber(dev, db),
     WWN                    |-> diskWWN(dev, db)]

\* Passing over the name "loop" alone.
isLoopDeviceExactName(name) == name = <<"l", "o", "o", "p">>

\* Whether the loop of disks passes over a name.
isLoopDevice(name) == HasPrefix(name, <<"l", "o", "o", "p">>)

RECURSIVE disksFrom(_, _, _, _, _)
\* The loop of disks from device i on; out holds the Disks so far.
disksFrom(tree, db, table, i, out) ==
    IF i > Len(tree.devices) THEN [kind |-> "return", disks |-> out]
    ELSE LET dev == tree.devices[i]
         IN  IF isLoopDevice(dev.name) THEN disksFrom(tree, db, table, i + 1, out)
             ELSE LET d == diskOf(dev, db)
                      ps == diskPartitions(dev, table)
                  IN  IF ps.kind = "panic" THEN [kind |-> "panic"]
                      ELSE disksFrom(tree, db, table, i + 1,
                               Append(out, [f \in DOMAIN d \cup {"Partitions"} |->
                                               IF f = "Partitions" THEN ps.parts ELSE d[f]]))

\* disks: nil (no Disk) when /sys/block cannot be listed.
disks(tree, db, table) ==
    IF ~tree.ok THEN [kind |-> "return", disks |-> <<>>]
    ELSE disksFrom(tree, db, table, 1, <<>>)

RECURSIVE sumSizeBytes(_, _, _)
\* tpb += d.SizeBytes over the Disks from i on, in uint64.
sumSizeBytes(ds, i, tpb) ==
    IF i > Len(ds) THEN tpb ELSE sumSizeBytes(ds, i + 1, (tpb + ds[i].SizeBytes) % Word)

\* blockFillInfo: the BlockInfo it leaves, unless a panic unwinds it.
blockFillInfo(tree, db, table) ==
    LET r == disks(tree, db, table)
    IN  IF r.kind = "panic" THEN [kind |-> "panic"]
        ELSE [kind               |-> "return",
              Disks              |-> r.disks,
              TotalPhysicalBytes |-> sumSizeBytes(r.disks, 1, 0)]

----------------------------------------------------------------------------
(* The classifier on its own *)

MaxNameLen == 4

NameChars == {"f", "d", "s", "h", "v", "n", "m", "e", "r", "x", "c", "0"}

InitClassify ==
    /\ pc = "start"
    /\ dname \in SeqsUpTo(NameChars, MaxNameLen)
    /\ types = None
    /\ line = None /\ entry = None /\ part = None /\ mtab = None /\ pinfo = None
    /\ sysfs = None /\ udev = None /\ info = None

DiskTypes ==
    /\ pc = "start"
    /\ types' = diskTypes(dname)
    /\ pc' = "classified"
    /\ UNCHANGED <<dname, line, entry, part, mtab, pinfo, sysfs, udev, info>>

SpecClassify == InitClassify /\ [][DiskTypes]_vars

\* The rules as the specification lists them, in its order.
PrefixRules == <<
    [prefix |-> <<"f", "d">>,           result |-> <<"FDD", "Unknown">>],
    [prefix |-> <<"s", "d">>,           result |-> <<"HDD", "SCSI">>],
    [prefix |-> <<"h", "d">>,           result |-> <<"HDD", "IDE">>],
    [prefix |-> <<"v", "d">>,           result |-> <<"HDD", "virtio">>],
    [prefix |-> <<"n", "v", "m", "e">>, result |-> <<"SSD", "NVMe">>],
    [prefix |-> <<"s", "r">>,           result |-> <<"ODD", "SCSI">>],
    [prefix |-> <<"x", "v", "d">>,      result |-> <<"HDD", "SCSI">>],
    [prefix |-> <<"m", "m", "c">>,      result |-> <<"SSD", "MMC">>] >>

\* The rules that apply to a name: those whose prefix the name starts with.
Applicable(name) ==
    {i \in DOMAIN PrefixRules :
        /\ Len(name) >= Len(PrefixRules[i].prefix)
        /\ \A k \in 1..Len(PrefixRules[i].prefix) : name[k] = PrefixRules[i].prefix[k]}

\* C1: diskTypes answers for every name; the answer is the pair of the first
\* listed rule whose prefix the name starts with, (Unknown, Unknown) when the
\* name starts with none of them; and no name starts with the prefixes of two
\* rules, so the answer is that of the one applicable rule whatever the order.
C1_ClassifyFirstAndOnlyRule ==
    pc = "classified" =>
        /\ Cardinality(Applicable(dname)) <= 1
        /\ \A i \in Applicable(dname) : types = PrefixRules[i].result
        /\ Applicable(dname) = {} => types = <<"Unknown", "Unknown">>
        /\ types \in {"Unknown", "HDD", "FDD", "ODD", "SSD"}
                     \X {"Unknown", "IDE", "SCSI", "NVMe", "virtio", "MMC"}

\* An "xvd" name, which contains "vd" but does not start with it, classified.
C1_Witness ==
    /\ pc = "classified"
    /\ dname = <<"x", "v", "d", "0">>
    /\ types = <<"HDD", "SCSI">>

----------------------------------------------------------------------------
(* The line parser on its own *)

MaxFields == 5
MaxMpLen == 5
MaxOptLen == 4

RECURSIVE Weave(_, _)
\* fs[1] ss[1] fs[2] ss[2] ... fs[n], for n fields and n - 1 separators.
Weave(fs, ss) ==
    IF Len(fs) = 0 THEN <<>>
    ELSE IF Len(fs) = 1 THEN fs[1]
    ELSE fs[1] \o ss[1] \o Weave(Tail(fs), Tail(ss))

\* Lines of 0..MaxFields fields, separated by a space or a tab, with or
\* without white space in front and behind; the first field is "/d" or "a",
\* the others "a" or "b,c".
FieldLines ==
    UNION {{lead \o Weave(fs, ss) \o trail :
                lead \in {<<>>, <<" ">>}, trail \in {<<>>, <<" ">>},
                fs \in {f \in [1..n -> {<<"/", "d">>, <<"a">>, <<"b", ",", "c">>}] :
                            \A k \in 1..n : f[k] # (IF k = 1 THEN <<"b", ",", "c">> ELSE <<"/", "d">>)},
                ss \in [1..(IF n = 0 THEN 0 ELSE n - 1) -> {<<" ">>, <<"\t">>}]} :
           n \in 0..MaxFields}

\* Entry lines whose mount point is any string of backslashes and the digits
\* of the escapes.
EscapeLines ==
    {<<"/", "d", " ">> \o mp \o <<" ", "e", " ", "r", "w", " ", "0", " ", "0">> :
        mp \in SeqsUpTo({"\\", "0", "1", "2", "4"}, MaxMpLen) \ {<<>>}}

\* Entry lines whose options field is any string of r, w and commas.
OptionLines ==
    {<<"/", "d", " ", "/", " ", "e", " ">> \o opts \o <<" ", "0", " ", "0">> :
        opts \in SeqsUpTo({"r", "w", ","}, MaxOptLen) \ {<<>>}}

InitParse ==
    /\ pc = "start"
    /\ line \in FieldLines \cup EscapeLines \cup OptionLines
    /\ entry = None
    /\ dname = None /\ types = None /\ part = None /\ mtab = None /\ pinfo = None
    /\ sysfs = None /\ udev = None /\ info = None

ParseMtabEntry ==
    /\ pc = "start"
    /\ entry' = parseMtabEntry(line)
    /\ pc' = IF entry'.kind = "panic" THEN "panicked" ELSE "parsed"
    /\ UNCHANGED <<dname, types, line, part, mtab, pinfo, sysfs, udev, info>>

SpecParse == InitParse /\ [][ParseMtabEntry]_vars

\* White space, as the mount-table format separates fields with it.
WhiteSpace == {" ", "\t", "\n", "\r", "\f"}

\* Where the fields of a line begin and end: a field is a longest run of
\* characters that are not white space.
FieldStarts(l) ==
    {i \in 1..Len(l) : l[i] \notin WhiteSpace /\ (i = 1 \/ l[i - 1] \in WhiteSpace)}

FieldEnds(l) ==
    {i \in 1..Len(l) : l[i] \notin WhiteSpace /\ (i = Len(l) \/ l[i + 1] \in WhiteSpace)}

NthOf(S, k) == CHOOSE i \in S : Cardinality({j \in S : j < i}) = k - 1

NumFields(l) == Cardinality(FieldStarts(l))

FieldText(l, k) == SubSeq(l, NthOf(FieldStarts(l), k), NthOf(FieldEnds(l), k))

\* A line the format calls an entry: it begins with '/' and has 4 fields.
IsEntryLine(l) == Len(l) > 0 /\ l[1] = "/" /\ NumFields(l) >= 4

RECURSIVE JoinWith(_, _)
JoinWith(ss, sep) ==
    IF Len(ss) = 0 THEN <<>>
    ELSE IF Len(ss) = 1 THEN ss[1]
    ELSE ss[1] \o <<sep>> \o JoinWith(Tail(ss), sep)

\* C2: for a line that begins with '/' and has at least 4 fields, the entry's
\* device is field 1, its mount point is field 2 decoded, its type is field 3,
\* and its options are the pieces of field 4 between the commas: one more
\* option than commas, none holding a comma, and joined with commas they give
\* field 4 back (order, count and duplicates kept). The line cut after field 4
\* parses to the same entry.
C2_EntryFromFirstFourFields ==
    (pc = "parsed" /\ IsEntryLine(line)) =>
        /\ entry.kind = "entry"
        /\ entry.Partition = FieldText(line, 1)
        /\ entry.Mountpoint = decodeMountpoint(FieldText(line, 2))
        /\ entry.FilesystemType = FieldText(line, 3)
        /\ LET f4 == FieldText(line, 4)
           IN  /\ Len(entry.Options) = 1 + Cardinality({i \in 1..Len(f4) : f4[i] = ","})
               /\ \A k \in DOMAIN entry.Options :
                      \A i \in DOMAIN entry.Options[k] : entry.Options[k][i] # ","
               /\ JoinWith(entry.Options, ",") = f4
        /\ entry = parseMtabEntry(SubSeq(line, 1, NthOf(FieldEnds(line), 4)))

\* A line of five tab- and space-separated fields parsed, its options split in two.
C2_Witness ==
    /\ pc = "parsed"
    /\ line = <<"/", "d", "\t", "a", " ", "a", "\t", "b", ",", "c", " ", "a">>
    /\ entry.kind = "entry"
    /\ entry.Options = << <<"b">>, <<"c">> >>

\* The escapes of the mount-table format, as the specification lists them.
EscapeImage(piece) ==
    IF piece = <<"\\", "0", "1", "1">> THEN <<"\t">>
    ELSE IF piece = <<"\\", "0", "1", "2">> THEN <<"\n">>
    ELSE IF piece = <<"\\", "0", "4", "0">> THEN <<" ">>
    ELSE IF piece = <<"\\", "\\">> THEN <<"\\">>
    ELSE piece

IsEscape(piece) == EscapeImage(piece) # piece

\* Whether an escape is written in raw from index b on.
EscapeAt(raw, b) ==
    \E n \in {2, 4} : b + n - 1 <= Len(raw) /\ IsEscape(SubSeq(raw, b, b + n - 1))

\* A division of raw into consecutive pieces, given by the set B of the
\* indices where a piece begins: the piece beginning at b ends before the next
\* index of B.
PieceAt(raw, B, b) ==
    SubSeq(raw, b, IF \E c \in B : c > b
                   THEN (CHOOSE c \in B : c > b /\ \A d \in B : d > b => c <= d) - 1
                   ELSE Len(raw))

\* A left-to-right, non-overlapping reading of raw: every piece is an escape,
\* or one character at which no escape is written.
IsReading(raw, B) ==
    /\ 1 \in B
    /\ \A b \in B : \/ IsEscape(PieceAt(raw, B, b))
                    \/ Len(PieceAt(raw, B, b)) = 1 /\ ~EscapeAt(raw, b)

RECURSIVE ReadingImage(_, _, _)
\* The images of the pieces from index b on, in order.
ReadingImage(raw, B, b) ==
    IF b > Len(raw) THEN <<>>
    ELSE EscapeImage(PieceAt(raw, B, b))
             \o ReadingImage(raw, B, b + Len(PieceAt(raw, B, b)))

\* C3: the decoded mount point reads the raw field once from left to right as
\* consecutive pieces, each an escape (replaced: \011 tab, \012 newline, \040
\* space, two backslashes one backslash) or one character at which no escape
\* is written (copied); what a replacement produced is not read again, so
\* backslash backslash 0 4 0 gives backslash 0 4 0.
C3_SinglePassDecoding ==
    (pc = "parsed" /\ IsEntryLine(line)) =>
        LET raw == FieldText(line, 2)
            readings == {B \in SUBSET (1..Len(raw)) : IsReading(raw, B)}
        IN  /\ readings # {}
            /\ \A B \in readings : entry.Mountpoint = ReadingImage(raw, B, 1)
            /\ raw = <<"\\", "\\", "0", "4", "0">>
                   => entry.Mountpoint = <<"\\", "0", "4", "0">>

\* The raw mount point backslash backslash 0 4 0 decoded.
C3_Witness ==
    /\ pc = "parsed"
    /\ IsEntryLine(line)
    /\ FieldText(line, 2) = <<"\\", "\\", "0", "4", "0">>
    /\ entry.Mountpoint = <<"\\", "0", "4", "0">>

\* C4: a line that does not begin with '/' (the empty line included) or that
\* has fewer than 4 fields makes the parser return "no entry".
C4_NonEntryLineYieldsNoEntry ==
    (pc # "start" /\ ~IsEntryLine(line)) => (pc = "parsed" /\ entry.kind = "nil")

\* A line without a leading '/' skipped.
C4_Witness ==
    /\ pc = "parsed"
    /\ line = <<"a", " ", "a", " ", "a", " ", "a">>
    /\ entry.kind = "nil"

----------------------------------------------------------------------------
(* The mount-table lookup *)

MaxLines == 2

DevA == <<"/", "d", "e", "v", "/", "a">>
DevB == <<"/", "d", "e", "v", "/", "b">>

\* Option fields: "rw" alone, first, last, absent, and inside longer options.
OptionFields ==
    { <<"r", "w">>, <<"r", "o">>, <<"r", "o", ",", "r", "w">>,
      <<"r", "w", ",", "r", "o">>, <<"r", "w", "x">>,
      <<"n", "o", "r", "w", ",", "r", "o">> }

\* The lines a mount table is made of here: entries for /dev/a and /dev/b
\* mounted at "/" or "/m", the empty line, a line of a virtual file system, a
\* line of two fields, and an entry for the device path "/deva".
MtabLines ==
    {dev \o <<" ">> \o mp \o <<" ", "e", " ">> \o opts \o <<" ", "0", " ", "0">> :
        dev \in {DevA, DevB}, mp \in {<<"/">>, <<"/", "m">>}, opts \in OptionFields}
    \cup { <<>>,
           <<"p", " ", "/", "p", " ", "e", " ", "r", "w", " ", "0", " ", "0">>,
           DevA \o <<" ", "/", "m">>,
           <<"/", "d", "e", "v", "a", " ", "/", "o", " ", "e", " ", "r", "w">> }

\* Partition identifiers: bare names, a full path, and a path that starts
\* with "/dev" but not with "/dev/".
PartNames == { <<"a">>, <<"b">>, DevA, <<"/", "d", "e", "v", "a">> }

InitMtab ==
    /\ pc = "start"
    /\ part \in PartNames
    /\ mtab \in {[ok |-> FALSE, lines |-> <<>>]}
                \cup {[ok |-> TRUE, lines |-> ls] : ls \in SeqsUpTo(MtabLines, MaxLines)}
    /\ pinfo = None
    /\ dname = None /\ types = None /\ line = None /\ entry = None
    /\ sysfs = None /\ udev = None /\ info = None

PartitionInfo ==
    /\ pc = "start"
    /\ pinfo' = partitionInfo(mtab, part)
    /\ pc' = IF pinfo'.kind = "panic" THEN "panicked" ELSE "looked_up"
    /\ UNCHANGED <<dname, types, line, entry, part, mtab, sysfs, udev, info>>

SpecMtab == InitMtab /\ [][PartitionInfo]_vars

\* The entry lines of the table whose device field is the path target.
EntriesFor(table, target) ==
    {i \in DOMAIN table.lines :
        IsEntryLine(table.lines[i]) /\ FieldText(table.lines[i], 1) = target}

\* What the lookup answers when it finds nothing.
NotMounted == [kind |-> "return", mp |-> <<>>, pt |-> <<>>, ro |-> TRUE]

\* C5: the identifier gets "/dev/" in front unless it already begins with
\* "/dev/"; the lookup returns the mount point and type of the first entry
\* line, in file order, whose device is that path, and ("", "", true) when
\* there is none or the table cannot be opened; it never ends in an error.
C5_FirstEntryOfNormalizedPath ==
    pc # "start" =>
        /\ pc = "looked_up"
        /\ LET target == IF HasPrefix(part, DevPrefix \o <<"/">>)
                         THEN part ELSE DevPrefix \o <<"/">> \o part
               found == IF mtab.ok THEN EntriesFor(mtab, target) ELSE {}
           IN  IF found = {} THEN pinfo = NotMounted
               ELSE LET l == mtab.lines[CHOOSE i \in found : \A j \in found : i <= j]
                    IN  /\ pinfo.kind = "return"
                        /\ pinfo.mp = decodeMountpoint(FieldText(l, 2))
                        /\ pinfo.pt = FieldText(l, 3)

\* The second of two entries for /dev/a is passed over for the first.
C5_Witness ==
    /\ pc = "looked_up"
    /\ part = <<"a">>
    /\ Len(mtab.lines) = 2
    /\ EntriesFor(mtab, DevA) = {1, 2}
    /\ FieldText(mtab.lines[1], 2) = <<"/", "m">>
    /\ FieldText(mtab.lines[2], 2) = <<"/">>
    /\ pinfo.mp = <<"/", "m">>

\* Whether "rw" is one of the comma-separated options written in field f.
ListsRW(f) ==
    \E i \in 1..(Len(f) - 1) :
        /\ f[i] = "r" /\ f[i + 1] = "w"
        /\ (i = 1 \/ f[i - 1] = ",")
        /\ (i + 1 = Len(f) \/ f[i + 2] = ",")

\* C6: when the lookup returns for a matched entry, read-only is false exactly
\* when "rw" is one of the options of that entry's options field, at whatever
\* place; "rw" inside a longer option does not count.
C6_ReadOnlyUnlessOptionRW ==
    (pc = "looked_up" /\ mtab.ok /\ EntriesFor(mtab, normalizePart(part)) # {}) =>
        LET found == EntriesFor(mtab, normalizePart(part))
            l == mtab.lines[CHOOSE i \in found : \A j \in found : i <= j]
        IN  (pinfo.ro = FALSE) <=> ListsRW(FieldText(l, 4))

\* A matched entry whose only option is "rwx": read-only.
C6_Witness ==
    /\ pc = "looked_up"
    /\ part = <<"b">>
    /\ mtab.ok /\ Len(mtab.lines) = 1
    /\ EntriesFor(mtab, DevB) = {1}
    /\ FieldText(mtab.lines[1], 4) = <<"r", "w", "x">>
    /\ pinfo.ro = TRUE

----------------------------------------------------------------------------
(* Discovery of the disks *)

MaxDisks == 3

File(data) == [ok |-> TRUE, data |-> data]
Unreadable == [ok |-> FALSE, data |-> <<>>]

Sda == <<"s", "d", "a">>
Sr0 == <<"s", "r", "0">>
Loop0 == <<"l", "o", "o", "p", "0">>

\* The udev record of a device with every key the code looks for.
FullRecord ==
    <<"E", ":", "ID_MODEL", "=", "M", "\n",
      "E", ":", "ID_SERIAL_SHORT", "=", "S", "S", "\n",
      "E", ":", "ID_SERIAL", "=", "S", "\n",
      "E", ":", "ID_PATH", "=", "P", "\n",
      "E", ":", "ID_WWN_WITH_EXTENSION", "=", "W", "X", "\n",
      "E", ":", "ID_WWN", "=", "W", "\n">>

\* A device all of whose reads succeed: 2^50 sectors, rotational, not
\* removable, one partition <name>1 beside an entry that is no partition.
\* devno is the contents of its dev attribute without the newline.
GoodDevice(name, devno) ==
    [name                |-> name,
     size                |-> File(<<"1", "\n">>),
     physical_block_size |-> File(<<"5", "1", "2", "\n">>),
     rotational          |-> File(<<"1", "\n">>),
     removable           |-> File(<<"1", "\n">>),
     vendor              |-> File(<<"A", "T", "A", " ", "\n">>),
     dev                 |-> File(devno \o <<"\n">>),
     numa_node           |-> File(<<"0", "\n">>),
     link                |-> File(DevicesPrefix \o <<"pci0", "/", "block", "/">> \o name),
     dir                 |-> [ok |-> TRUE,
                              entries |-> << [name |-> <<"queue">>, size |-> Unreadable],
                                             [name |-> name \o <<"1">>,
                                              size |-> File(<<"1", "\n">>)] >>]]

DevNo(name) == IF name = Sda THEN <<"8", ":", "0">>
               ELSE IF name = Sr0 THEN <<"1", "1", ":", "0">>
               ELSE <<"7", ":", "0">>

GoodUdev == [id \in {<<"b">> \o DevNo(n) : n \in {Sda, Sr0, Loop0}} |-> FullRecord]

\* A mount table with /dev/sda1 mounted read-write, and the same table with a
\* blank first line.
GoodMtab ==
    [ok |-> TRUE,
     lines |-> << <<"/", "d", "e", "v", "/", "s", "d", "a", "1", " ", "/", " ", "e", " ",
                    "r", "w", " ", "0", " ", "0">> >>]

BlankLineMtab == [ok |-> TRUE, lines |-> << <<>> >> \o GoodMtab.lines]

\* Size attributes: unreadable, not a number, too large for a uint64, and 1,
\* 16 and 31 units of 2^50 sectors (2^59, 2^63 and 31 * 2^59 bytes).
SizeFiles ==
    { Unreadable, File(<<"x", "\n">>), File(<<"9", "9", "9", "9", "9", "\n">>),
      File(<<"1", "\n">>), File(<<"1", "6", "\n">>), File(<<"3", "1", "\n">>) }

\* Trees of up to MaxDisks devices, each sda with any of the size attributes,
\* sr0 or loop0, the listing of /sys/block succeeding or failing.
SizeTrees ==
    {[ok |-> ok, devices |-> ds] :
        ok \in BOOLEAN,
        ds \in SeqsUpTo({[GoodDevice(Sda, DevNo(Sda)) EXCEPT !.size = sz] : sz \in SizeFiles}
                        \cup {GoodDevice(Sr0, DevNo(Sr0)),
                              [GoodDevice(Loop0, DevNo(Loop0)) EXCEPT
                                   !.size = File(<<"1", "6", "\n">>)]},
                        MaxDisks)}

\* sda with each of its reads succeeding or failing.
FaultyDevices ==
    {[GoodDevice(Sda, DevNo(Sda)) EXCEPT
          !.size = sz, !.physical_block_size = pbs, !.rotational = rot,
          !.removable = rem, !.vendor = ven, !.dev = dv, !.link = ln,
          !.dir = dr] :
        sz \in {File(<<"1", "\n">>), Unreadable},
        pbs \in {File(<<"5", "1", "2", "\n">>), Unreadable},
        rot \in {File(<<"1", "\n">>), Unreadable},
        rem \in {File(<<"1", "\n">>), Unreadable},
        ven \in {File(<<"A", "T", "A", " ", "\n">>), Unreadable},
        dv \in {File(DevNo(Sda) \o <<"\n">>), Unreadable},
        ln \in {GoodDevice(Sda, DevNo(Sda)).link, Unreadable},
        dr \in {GoodDevice(Sda, DevNo(Sda)).dir, [ok |-> FALSE, entries |-> <<>>]}}

\* Such a device before or after a device all of whose reads succeed.
FaultTrees ==
    {[ok |-> TRUE, devices |-> ds] :
        ds \in UNION {{<<d, GoodDevice(Sr0, DevNo(Sr0))>>,
                       <<GoodDevice(Sr0, DevNo(Sr0)), d>>} : d \in FaultyDevices}}

\* The lines a udev record is made of here.
RecordLines == <<
    <<"E", ":", "ID_MODEL", "=", "M">>,
    <<"E", ":", "ID_SERIAL_SHORT", "=", "S", "S">>,
    <<"E", ":", "ID_SERIAL", "=", "S">>,
    <<"E", ":", "ID_PATH", "=", "P">>,
    <<"E", ":", "ID_WWN_WITH_EXTENSION", "=", "W", "X">>,
    <<"E", ":", "ID_WWN", "=", "W">>,
    <<"S", ":", "ID_SERIAL_SHORT", "=", "L">>,
    <<"E", ":", "ID_SERIAL_SHORT", "=", "S", "2">>,
    <<"E", ":", "ID_MODEL">>,
    <<"E", ":", "ID_WWN", "=">> >>

RECURSIVE RecordOf(_, _)
\* The record with the lines of RecordLines whose index is in S, from index i
\* on, each ended by a newline.
RecordOf(S, i) ==
    IF i > Len(RecordLines) THEN <<>>
    ELSE (IF i \in S THEN RecordLines[i] \o <<"\n">> ELSE <<>>) \o RecordOf(S, i + 1)

\* The udev database with any such record for sda, or none.
Records ==
    {[id \in {<<"b">> \o DevNo(Sda)} |-> RecordOf(S, 1)] : S \in SUBSET DOMAIN RecordLines}
    \cup {[id \in {<<"b">> \o DevNo(Sr0)} |-> FullRecord]}

\* numa_node attributes: unreadable, a number ended by a newline, a number
\* alone, and no number.
NumaFiles == { Unreadable, File(<<"0", "\n">>), File(<<"1">>), File(<<"x">>) }

\* What os.Readlink gives for the directory of a device: a target under
\* ../devices/, a target elsewhere, or an error.
LinkFiles(name) ==
    { File(DevicesPrefix \o <<"pci0", "/", "block", "/">> \o name),
      File(<<".", ".", "/", "virtual", "/">> \o name),
      Unreadable }

\* queue/rotational attributes: unreadable, 1, 0 and no number.
RotationalFiles ==
    { Unreadable, File(<<"1", "\n">>), File(<<"0", "\n">>), File(<<"x", "\n">>) }

\* device/vendor attributes: a name, white space only, and unreadable.
VendorFiles == { File(<<"A", "T", "A", " ", "\n">>), File(<<" ", "\n">>), Unreadable }

\* A tree of one device, sda or sr0, with any of these attributes.
ProbeTrees ==
    UNION {{[ok |-> TRUE,
             devices |-> << [GoodDevice(name, DevNo(name)) EXCEPT
                                !.numa_node = nf, !.link = ln, !.rotational = rot,
                                !.vendor = ven] >>] :
               nf \in NumaFiles, ln \in LinkFiles(name),
               rot \in RotationalFiles, ven \in VendorFiles} : name \in {Sda, Sr0}}

InitDisks ==
    /\ pc = "start"
    /\ \/ sysfs \in SizeTrees /\ udev = GoodUdev /\ mtab = GoodMtab
       \/ sysfs \in FaultTrees /\ udev \in {GoodUdev, [GoodUdev EXCEPT ![<<"b">> \o DevNo(Sda)] = <<>>]}
                               /\ mtab \in {GoodMtab, BlankLineMtab, [ok |-> FALSE, lines |-> <<>>]}
       \/ sysfs = [ok |-> TRUE, devices |-> <<GoodDevice(Sda, DevNo(Sda))>>]
              /\ udev \in Records /\ mtab = GoodMtab
       \/ sysfs \in ProbeTrees /\ udev = GoodUdev /\ mtab = GoodMtab
    /\ info = None
    /\ dname = None /\ types = None /\ line = None /\ entry = None
    /\ part = None /\ pinfo = None

BlockFillInfo ==
    /\ pc = "start"
    /\ info' = blockFillInfo(sysfs, udev, mtab)
    /\ pc' = IF info'.kind = "panic" THEN "panicked" ELSE "filled"
    /\ UNCHANGED <<dname, types, line, entry, part, mtab, pinfo, sysfs, udev>>

SpecDisks == InitDisks /\ [][BlockFillInfo]_vars

\* Whether a name begins with the four characters l o o p.
BeginsWithLoop(name) ==
    Len(name) >= 4 /\ name[1] = "l" /\ name[2] = "o" /\ name[3] = "o" /\ name[4] = "p"

\* The devices of the listing that are no loop devices, in listing order.
Listed == SelectSeq(sysfs.devices, LAMBDA d : ~BeginsWithLoop(d.name))

RECURSIVE ExactSum(_)
\* The sum of the SizeBytes of a sequence of Disks, as an integer.
ExactSum(ds) == IF ds = <<>> THEN 0 ELSE Head(ds).SizeBytes + ExactSum(Tail(ds))

\* C7: after blockFillInfo the total physical bytes is the arithmetic sum of
\* the SizeBytes of the Disks, 0 when there are none.
C7_TotalIsExactSum ==
    pc = "filled" => info.TotalPhysicalBytes = ExactSum(info.Disks)

\* Two disks of different sizes whose total is their sum.
C7_Witness ==
    /\ pc = "filled"
    /\ Len(info.Disks) = 2
    /\ info.Disks[1].SizeBytes = 512
    /\ info.Disks[2].SizeBytes = 8192
    /\ info.TotalPhysicalBytes = 8704

\* C9: the names of the Disks are the names of the listing without those that
\* begin with "loop", in listing order; when /sys/block cannot be listed there
\* is no Disk and the total is 0.
C9_DisksAreListingWithoutLoop ==
    pc = "filled" =>
        IF sysfs.ok
        THEN /\ Len(info.Disks) = Len(Listed)
             /\ \A k \in DOMAIN info.Disks : info.Disks[k].Name = Listed[k].name
        ELSE info.Disks = <<>> /\ info.TotalPhysicalBytes = 0

\* A listing sda, loop0, sr0 that gave the Disks sda and sr0.
C9_Witness ==
    /\ pc = "filled"
    /\ sysfs.ok
    /\ Len(sysfs.devices) = 3
    /\ sysfs.devices[1].name = Sda
    /\ sysfs.devices[2].name = Loop0
    /\ sysfs.devices[3].name = Sr0
    /\ Len(info.Disks) = 2
    /\ info.Disks[1].Name = Sda /\ info.Disks[2].Name = Sr0

\* The listing of /sys/block failed although devices are there: no Disk.
C9_WitnessListingFails ==
    /\ pc = "filled"
    /\ ~sysfs.ok
    /\ Len(sysfs.devices) = 2
    /\ info.Disks = <<>>

\* Whether the contents of an attribute are no decimal number: after the white
\* space around them is dropped they are empty or hold a character that is no
\* digit.
NotANumber(data) ==
    \/ \A i \in DOMAIN data : data[i] \in WhiteSpace
    \/ \E i \in DOMAIN data :
           /\ data[i] \notin {"0", "1", "2", "3", "4", "5", "6", "7", "8", "9"}
           /\ \/ data[i] \notin WhiteSpace
              \/ (\E j \in 1..(i - 1) : data[j] \notin WhiteSpace)
                     /\ (\E j \in (i + 1)..Len(data) : data[j] \notin WhiteSpace)

\* The name of the udev record of a device, and whether it can be read.
RecordName(dev) == <<"b">> \o DevNo(dev.name)

RecordReadable(dev) == dev.dev.ok /\ RecordName(dev) \in DOMAIN udev

\* The fields of a Disk that each read of a device decides.
DerivedFrom ==
    [size                |-> {"SizeBytes"},
     physical_block_size |-> {"PhysicalBlockSizeBytes"},
     rotational          |-> {"DriveType"},
     removable           |-> {"IsRemovable"},
     vendor              |-> {"Vendor"},
     dev                 |-> {"Model", "SerialNumber", "BusPath", "WWN"},
     link                |-> {"NUMANodeID"},
     numa_node           |-> {"NUMANodeID"},
     dir                 |-> {"Partitions"}]

\* The tree in which read a of device j succeeds.
WithReadSucceeding(j, a) ==
    [sysfs EXCEPT !.devices[j][a] =
        GoodDevice(sysfs.devices[j].name, DevNo(sysfs.devices[j].name))[a]]

\* The discovery agrees with the actual one on every field of every Disk,
\* but for the fields in except of Disk k.
SameDisksBut(other, k, except) ==
    /\ other.kind = "return"
    /\ Len(other.Disks) = Len(info.Disks)
    /\ \A i \in DOMAIN info.Disks : \A f \in DOMAIN info.Disks[i] :
           (i # k \/ f \notin except) => other.Disks[i][f] = info.Disks[i][f]

\* C8: when /sys/block is listed, discovery ends with one Disk for every name
\* that is no loop device, whichever reads fail; a failed read leaves its
\* field at the sentinel (size unreadable or no number: 0 bytes; block size: 0;
\* removable: false; vendor: unknown; dev attribute or udev record: model,
\* serial number, bus path and WWN unknown; directory listing: no partitions);
\* and every other field of that Disk and every other Disk is what it would
\* be had the read succeeded.
C8_ReadFailuresAreIsolated ==
    (pc # "start" /\ sysfs.ok) =>
        /\ pc = "filled"
        /\ Len(info.Disks) = Len(Listed)
        /\ \A k \in DOMAIN info.Disks :
               LET dev == Listed[k]
                   d == info.Disks[k]
               IN  /\ d.Name = dev.name
                   /\ (~dev.size.ok \/ NotANumber(dev.size.data)) => d.SizeBytes = 0
                   /\ ~dev.physical_block_size.ok => d.PhysicalBlockSizeBytes = 0
                   /\ ~dev.removable.ok => d.IsRemovable = FALSE
                   /\ ~dev.vendor.ok => d.Vendor = UNKNOWN
                   /\ ~RecordReadable(dev) =>
                          /\ d.Model = UNKNOWN /\ d.SerialNumber = UNKNOWN
                          /\ d.BusPath = UNKNOWN /\ d.WWN = UNKNOWN
                   /\ ~dev.dir.ok => d.Partitions = <<>>
        /\ \A j \in DOMAIN sysfs.devices : \A a \in DOMAIN DerivedFrom :
               ~BeginsWithLoop(sysfs.devices[j].name) =>
                   SameDisksBut(blockFillInfo(WithReadSucceeding(j, a), udev, mtab),
                                Len(SelectSeq(SubSeq(sysfs.devices, 1, j),
                                              LAMBDA d : ~BeginsWithLoop(d.name))),
                                DerivedFrom[a])
        /\ \A k \in DOMAIN info.Disks :
               SameDisksBut(blockFillInfo(sysfs, [udev EXCEPT ![RecordName(Listed[k])] = FullRecord] , mtab),
                            k, DerivedFrom.dev)

\* sda, whose size and vendor cannot be read, discovered beside sr0.
C8_Witness ==
    /\ pc = "filled"
    /\ Len(info.Disks) = 2
    /\ Listed[1].name = Sda
    /\ ~Listed[1].size.ok /\ ~Listed[1].vendor.ok /\ Listed[1].removable.ok
    /\ info.Disks[1].SizeBytes = 0
    /\ info.Disks[1].Vendor = UNKNOWN
    /\ info.Disks[1].IsRemovable
    /\ info.Disks[2].SizeBytes = 512

\* Where the record text holds a line "E:<key>=...": the indices of the E.
KeyLineStarts(text, key) ==
    {i \in 1..(Len(text) - 3) :
        /\ i = 1 \/ text[i - 1] = "\n"
        /\ text[i] = "E" /\ text[i + 1] = ":" /\ text[i + 2] = key /\ text[i + 3] = "="}

KeyPresent(text, key) == KeyLineStarts(text, key) # {}

\* The value of a key: what follows the "=" of its last line, up to the end
\* of that line.
KeyValue(text, key) ==
    LET i == CHOOSE i \in KeyLineStarts(text, key) :
                 \A j \in KeyLineStarts(text, key) : j <= i
        ends == {e \in (i + 3)..Len(text) :
                    /\ \A m \in (i + 4)..e : text[m] # "\n"
                    /\ e = Len(text) \/ text[e + 1] = "\n"}
    IN  SubSeq(text, i + 4, CHOOSE e \in ends : TRUE)

\* The value of the first of two keys that is present, unknown if neither is.
FirstPresent(text, key1, key2) ==
    IF KeyPresent(text, key1) THEN KeyValue(text, key1)
    ELSE IF KeyPresent(text, key2) THEN KeyValue(text, key2)
    ELSE <<"u", "n", "k", "n", "o", "w", "n">>

\* C10, as claimed: on a readable record the serial number is the value of
\* ID_SERIAL_SHORT, else that of ID_SERIAL, else unknown; the WWN is the value
\* of ID_WWN_WITH_EXTENSION, else that of ID_WWN, else unknown.
C10_SerialAndWWNFallBack ==
    pc = "filled" =>
        \A k \in DOMAIN info.Disks :
            RecordReadable(Listed[k]) =>
                LET text == udev[RecordName(Listed[k])]
                IN  /\ info.Disks[k].SerialNumber
                           = FirstPresent(text, "ID_SERIAL_SHORT", "ID_SERIAL")
                    /\ info.Disks[k].WWN
                           = FirstPresent(text, "ID_WWN_WITH_EXTENSION", "ID_WWN")

\* C10, amended: on a readable record the serial number is the value of
\* ID_SERIAL_SHORT when that key is present and unknown otherwise, whether or
\* not ID_SERIAL is present; the WWN is the value of ID_WWN_WITH_EXTENSION,
\* else that of ID_WWN, else unknown.
C10_SerialShortOnlyWWNFallBack ==
    pc = "filled" =>
        \A k \in DOMAIN info.Disks :
            RecordReadable(Listed[k]) =>
                LET text == udev[RecordName(Listed[k])]
                IN  /\ info.Disks[k].SerialNumber
                           = FirstPresent(text, "ID_SERIAL_SHORT", "ID_SERIAL_SHORT")
                    /\ info.Disks[k].WWN
                           = FirstPresent(text, "ID_WWN_WITH_EXTENSION", "ID_WWN")

\* A record with ID_SERIAL and ID_WWN but neither ID_SERIAL_SHORT nor
\* ID_WWN_WITH_EXTENSION: the serial number is unknown, the WWN that of ID_WWN.
C10_Witness ==
    /\ pc = "filled"
    /\ Len(info.Disks) = 1
    /\ RecordReadable(Listed[1])
    /\ LET text == udev[RecordName(Listed[1])]
       IN  /\ KeyPresent(text, "ID_SERIAL") /\ ~KeyPresent(text, "ID_SERIAL_SHORT")
           /\ KeyPresent(text, "ID_WWN") /\ ~KeyPresent(text, "ID_WWN_WITH_EXTENSION")
           /\ KeyValue(text, "ID_WWN") = <<"W">>
    /\ info.Disks[1].SerialNumber = UNKNOWN
    /\ info.Disks[1].WWN = <<"W">>

\* What the numa_node attribute of a device holds when it is read and is a
\* number: a decimal numeral and nothing else.
NumaReadable(dev) ==
    /\ dev.link.ok
    /\ Len(dev.link.data) >= Len(DevicesPrefix)
    /\ SubSeq(dev.link.data, 1, Len(DevicesPrefix)) = DevicesPrefix
    /\ dev.numa_node.ok
    /\ dev.numa_node.data # <<>>
    /\ \A i \in DOMAIN dev.numa_node.data : IsDigit(dev.numa_node.data[i])

\* C11: the NUMA node id of a Disk is the integer in the numa_node attribute
\* when the link resolves under ../devices/ and the attribute is read and is
\* a number, and -1 in every other case; no other node id is returned.
C11_NUMANodeIsParsedOrMinusOne ==
    pc = "filled" =>
        \A k \in DOMAIN info.Disks :
            info.Disks[k].NUMANodeID
                = IF NumaReadable(Listed[k])
                  THEN ParseUint(Listed[k].numa_node.data).val
                  ELSE -1

\* A device whose numa_node attribute cannot be read gets node id 0, and one
\* whose attribute holds 1 gets -1.
C11_Witness ==
    /\ pc = "filled"
    /\ Len(info.Disks) = 1
    /\ Listed[1].link.ok /\ HasPrefix(Listed[1].link.data, DevicesPrefix)
    /\ \/ ~Listed[1].numa_node.ok /\ info.Disks[1].NUMANodeID = 0
       \/ Listed[1].numa_node = File(<<"1">>) /\ info.Disks[1].NUMANodeID = -1

\* The rotational flag of a device was read and is 1; was read and is not 1.
ReportsRotational(dev) ==
    dev.rotational.ok /\ TrimSpace(dev.rotational.data) = <<"1">>

ReportsNonRotational(dev) ==
    dev.rotational.ok /\ TrimSpace(dev.rotational.data) # <<"1">>

\* C12: the storage controller of every Disk is the one diskTypes gives for
\* its name; its drive type differs from the one diskTypes gives only when the
\* rotational flag was read and is not 1, and then it is SSD; a device whose
\* flag is 1 keeps the drive type of its name.
C12_DriveTypeOverriddenOnlyWhenNonRotational ==
    pc = "filled" =>
        \A k \in DOMAIN info.Disks :
            LET dev == Listed[k]
                named == diskTypes(dev.name)
            IN  /\ info.Disks[k].StorageController = named[2]
                /\ info.Disks[k].DriveType # named[1] => ReportsNonRotational(dev)
                /\ ReportsNonRotational(dev) => info.Disks[k].DriveType = DRIVE_TYPE_SSD
                /\ ReportsRotational(dev) => info.Disks[k].DriveType = named[1]

\* A device named sr0 whose rotational flag cannot be read is given the drive
\* type SSD, with the storage controller of its name.
C12_Witness ==
    /\ pc = "filled"
    /\ Len(info.Disks) = 1
    /\ Listed[1].name = Sr0
    /\ ~Listed[1].rotational.ok
    /\ info.Disks[1].DriveType = DRIVE_TYPE_SSD
    /\ info.Disks[1].StorageController = STORAGE_CONTROLLER_SCSI

\* C13: in every snapshot no Disk has an empty vendor, model, serial number,
\* bus path or WWN; a vendor attribute that cannot be read, or is empty once
\* trimmed, gives the unknown string, and so does a record that cannot be read.
C13_IdentityFieldsNeverEmpty ==
    pc = "filled" =>
        \A k \in DOMAIN info.Disks :
            LET d == info.Disks[k]
                dev == Listed[k]
            IN  /\ \A f \in {"Vendor", "Model", "SerialNumber", "BusPath", "WWN"} :
                       d[f] # <<>>
                /\ (~dev.vendor.ok \/ \A i \in DOMAIN dev.vendor.data :
                                          IsSpace(dev.vendor.data[i]))
                       => d.Vendor = UNKNOWN
                /\ ~RecordReadable(dev)
                       => \A f \in {"Model", "SerialNumber", "BusPath", "WWN"} :
                              d[f] = UNKNOWN

\* A vendor attribute of white space only gives the empty vendor, and a
\* record whose ID_WWN line has no value gives the empty WWN.
C13_Witness ==
    /\ pc = "filled"
    /\ Len(info.Disks) = 1
    /\ \/ /\ Listed[1].vendor = File(<<" ", "\n">>)
          /\ info.Disks[1].Vendor = <<>>
       \/ /\ RecordReadable(Listed[1])
          /\ KeyPresent(udev[RecordName(Listed[1])], "ID_WWN")
          /\ ~KeyPresent(udev[RecordName(Listed[1])], "ID_WWN_WITH_EXTENSION")
          /\ KeyValue(udev[RecordName(Listed[1])], "ID_WWN") = <<>>
          /\ info.Disks[1].WWN = <<>>

====
